---- MODULE Spec2Model ----
(***************************************************************************)
(* The cybersecurity-incidents notebook (main.py) as a state machine: one  *)
(* forward pass over a single table df, one action per notebook cell.      *)
(*                                                                         *)
(* Numbers are held in fixed point.  A numeric cell holds twice the value  *)
(* written in the CSV file, so that the median of an even number of        *)
(* integer values is exact; quantiles are returned in quarters of a cell   *)
(* unit and the Tukey fences are compared in eighths.  All arithmetic is    *)
(* exact: within the bounds every value is a small dyadic rational, which  *)
(* IEEE doubles hold exactly.  Library behaviour is that of pandas >= 2.0  *)
(* (DataFrame.median raises on a non-numeric column).                      *)
(***************************************************************************)
EXTENDS Integers, Sequences, FiniteSets, TLC

\* Bounds of the model.
MaxLen == 4    \* longest column of the "deep" tables (one column varied freely)
MaxVal == 1    \* largest number written in a generated CSV field

\* Encoding of the fields of the CSV file and of the cells of the table.
Empty == -1    \* an empty CSV field
Text == -2     \* a CSV field holding non-numeric text
NaN == -1      \* a missing cell of the table
Str == -2      \* a string cell of the table (its column has dtype object)

Loss == "Financial Loss (in Million $)"
Users == "Number of Affected Users"
Time == "Incident Resolution Time (in Hours)"
AttackType == "Attack Type"
Year == "Year"
Country == "Country"

numeric_cols == <<Loss, Users, Time>>
NumericSet == {numeric_cols[i] : i \in 1..Len(numeric_cols)}
OtherCols == {AttackType, Year, Country}
AllCols == NumericSet \cup OtherCols

\* The value before any table exists.
NoTable == [c \in {} |-> <<>>]

Rows(col) == 1..Len(col)

\* A CSV number v as a cell.
Num(v) == 2 * v

\* pd.read_csv: an empty field parses to NaN, a number to its value, any
\* other text stays a string.
ParseField(f) ==
  IF f = Empty THEN NaN
  ELSE IF f = Text THEN Str
  ELSE Num(f)

read_csv(file) == [c \in DOMAIN file |-> [r \in Rows(file[c]) |-> ParseField(file[c][r])]]

\* df[cols]
Select(table, cols) == [c \in cols |-> table[c]]

\* The observed (non-missing) cells of a column, in row order.
Observed(col) == SelectSeq(col, LAMBDA x : x # NaN)

Sorted(col) == SortSeq(col, LAMBDA a, b : a < b)

\* The cells of all the columns of a table, in one sequence.
RECURSIVE Concat(_, _)
Concat(table, cols) ==
  IF cols = {} THEN <<>>
  ELSE LET c == CHOOSE x \in cols : TRUE
       IN  table[c] \o Concat(table, cols \ {c})

SetToSeqOfCols(table) == Concat(table, DOMAIN table)

\* The lower middle value, with no averaging for an even count.
MedianLower(col) ==
  LET s == Sorted(Observed(col))
      m == Len(s)
  IN  IF m = 0 THEN NaN ELSE s[(m + 1) \div 2]

\* Series.median(): skips missing cells; NaN when nothing is observed.
Median(col) ==
  LET s == Sorted(Observed(col))
      m == Len(s)
  IN  IF m = 0 THEN NaN
      ELSE IF m % 2 = 1 THEN s[(m + 1) \div 2]
      ELSE (s[m \div 2] + s[m \div 2 + 1]) \div 2

\* One median over the cells of all the columns together.
medianPooled(table) ==
  LET cs == SetToSeqOfCols(table)
  IN  [c \in DOMAIN table |-> Median(cs)]

\* DataFrame.median(): one median per column.
median(table) == [c \in DOMAIN table |-> Median(table[c])]

\* Each missing cell takes 0.
fillnaZero(table, value) ==
  [c \in DOMAIN table |-> [r \in Rows(table[c]) |->
      IF table[c][r] = NaN THEN 0 ELSE table[c][r]]]

\* Every cell of the column takes the value, present or not.
fillnaAll(table, value) ==
  [c \in DOMAIN table |-> [r \in Rows(table[c]) |-> value[c]]]

\* DataFrame.fillna(value): each missing cell takes the value given for
\* its column; a NaN value leaves the cell missing.
fillna(table, value) ==
  [c \in DOMAIN table |-> [r \in Rows(table[c]) |->
      IF table[c][r] = NaN THEN value[c] ELSE table[c][r]]]

\* df[cols] = new
SetCols(table, new) == [c \in DOMAIN table |-> IF c \in DOMAIN new THEN new[c] ELSE table[c]]

IsObject(col) == \E r \in Rows(col) : col[r] = Str

\* Series.quantile(j/4) with linear interpolation between order statistics,
\* over the observed cells; the result is in quarters of a cell unit.
\* NaN when nothing is observed.
Quantile4(col, j) ==
  LET s == Sorted(Observed(col))
      n == Len(s)
      lo == ((n - 1) * j) \div 4
      fr == ((n - 1) * j) % 4
  IN  IF n = 0 THEN NaN
      ELSE IF fr = 0 THEN 4 * s[lo + 1]
      ELSE (4 - fr) * s[lo + 1] + fr * s[lo + 2]

\* df[keep]: the rows whose flag is set, in order.
FilterRows(table, keep) ==
  LET n == Len(keep)
      idx == SelectSeq([r \in 1..n |-> r], LAMBDA r : keep[r])
  IN  [c \in DOMAIN table |-> [i \in 1..Len(idx) |-> table[c][idx[i]]]]

\* Lines 71-74: the Tukey fences of a column and the rows outside them.
\* Q1, Q3 and IQR are in quarters of a cell unit; the comparison of a cell x
\* with Q1 - 1.5*IQR and Q3 + 1.5*IQR is made in eighths.  A comparison with
\* NaN is false.
Q1(col) == Quantile4(col, 1)
Q3(col) == Quantile4(col, 3)
IQR(col) == Q3(col) - Q1(col)

\* The fences taken as inclusive.
IsOutlierInclusive(x, col) ==
  /\ x # NaN
  /\ Len(Observed(col)) > 0
  /\ \/ 8 * x <= 2 * Q1(col) - 3 * IQR(col)
     \/ 8 * x >= 2 * Q3(col) + 3 * IQR(col)

IsOutlier(x, col) ==
  /\ x # NaN
  /\ Len(Observed(col)) > 0
  /\ \/ 8 * x < 2 * Q1(col) - 3 * IQR(col)
     \/ 8 * x > 2 * Q3(col) + 3 * IQR(col)

OutlierMask(col) == [r \in Rows(col) |-> IsOutlier(col[r], col)]

\* (mask).sum()
RECURSIVE CountTrue(_)
CountTrue(mask) ==
  IF mask = <<>> THEN 0
  ELSE (IF Head(mask) THEN 1 ELSE 0) + CountTrue(Tail(mask))

\* The iteration removes the rows it counted from the table.
OutlierCellDrop(table, col) ==
  [df |-> FilterRows(table, [r \in Rows(table[col]) |-> ~OutlierMask(table[col])[r]]),
   count |-> CountTrue(OutlierMask(table[col]))]

\* The iteration marks the rows it counted in a new column of the table.
OutlierCellFlag(table, col) ==
  [df |-> [c \in DOMAIN table \cup {"is_outlier"} |->
             IF c \in DOMAIN table THEN table[c]
             ELSE [r \in Rows(table[col]) |-> IF OutlierMask(table[col])[r] THEN 1 ELSE 0]],
   count |-> CountTrue(OutlierMask(table[col]))]

\* One iteration of the loop of lines 70-75: the count printed for col and
\* the table the iteration leaves.
OutlierCell(table, col) ==
  [df |-> table, count |-> CountTrue(OutlierMask(table[col]))]

\* The rows with a missing cell are removed instead of filled.
ImputeDropna(table, cols) ==
  IF ~(cols \subseteq DOMAIN table)
  THEN [ok |-> FALSE, kind |-> "KeyError", df |-> table]
  ELSE IF \E c \in cols : IsObject(table[c])
  THEN [ok |-> FALSE, kind |-> "TypeError", df |-> table]
  ELSE LET c0 == CHOOSE c \in cols : TRUE
           keep == [r \in Rows(table[c0]) |-> \A c \in cols : table[c][r] # NaN]
       IN  [ok |-> TRUE, kind |-> "", df |-> FilterRows(table, keep)]

\* Every column of the table is filled, not only the columns asked for.
ImputeAll(table, cols) ==
  IF ~(cols \subseteq DOMAIN table)
  THEN [ok |-> FALSE, kind |-> "KeyError", df |-> table]
  ELSE IF \E c \in cols : IsObject(table[c])
  THEN [ok |-> FALSE, kind |-> "TypeError", df |-> table]
  ELSE [ok |-> TRUE, kind |-> "", df |-> fillna(table, median(table))]

\* The columns are filled one by one, and the numeric ones are already
\* filled when a non-numeric one raises.
ImputePartial(table, cols) ==
  IF ~(cols \subseteq DOMAIN table)
  THEN [ok |-> FALSE, kind |-> "KeyError", df |-> table]
  ELSE LET good == {c \in cols : ~IsObject(table[c])}
           sub == Select(table, good)
           filled == SetCols(table, fillna(sub, median(sub)))
       IN  IF good # cols
           THEN [ok |-> FALSE, kind |-> "TypeError", df |-> filled]
           ELSE [ok |-> TRUE, kind |-> "", df |-> filled]

\* Line 63: df[numeric_cols] = df[numeric_cols].fillna(df[numeric_cols].median())
\* The right-hand side is evaluated in full before the assignment: a missing
\* column (KeyError) or a non-numeric column (TypeError in median) leaves
\* the table as it was.
Impute(table, cols) ==
  IF ~(cols \subseteq DOMAIN table)
  THEN [ok |-> FALSE, kind |-> "KeyError", df |-> table]
  ELSE LET sub == Select(table, cols)
       IN  IF \E c \in cols : IsObject(sub[c])
           THEN [ok |-> FALSE, kind |-> "TypeError", df |-> table]
           ELSE [ok |-> TRUE, kind |-> "", df |-> SetCols(table, fillna(sub, median(sub)))]

-----------------------------------------------------------------------------
\* The cells of the notebook, in the order they run.
InspectSteps == {"shape", "info", "describe", "isnull"}
BarSteps == {"bar_attack", "bar_year", "bar_country"}
HistSteps == {"hist_loss", "hist_time"}
ChartSteps == BarSteps \cup HistSteps \cup
              {"boxplot", "scatter_users", "corr", "line_year", "scatter_time"}

Steps == <<"load", "shape", "info", "describe", "isnull", "impute", "outliers",
           "bar_attack", "bar_year", "bar_country", "hist_loss", "hist_time",
           "boxplot", "scatter_users", "corr", "line_year", "scatter_time",
           "summary">>

StepIndex(step) == CHOOSE i \in 1..Len(Steps) : Steps[i] = step

NextStep(step) ==
  IF StepIndex(step) = Len(Steps) THEN "done" ELSE Steps[StepIndex(step) + 1]

\* The columns each chart cell reads; the first is the one it counts or bins.
ChartCols(step) ==
  CASE step = "bar_attack" -> <<AttackType>>
    [] step = "bar_year" -> <<Year>>
    [] step = "bar_country" -> <<Country>>
    [] step = "hist_loss" -> <<Loss>>
    [] step = "hist_time" -> <<Time>>
    [] step = "boxplot" -> <<Loss, AttackType>>
    [] step = "scatter_users" -> <<Users, Loss>>
    [] step = "corr" -> <<Users, Loss, Time>>
    [] step = "line_year" -> <<Year, Loss>>
    [] step = "scatter_time" -> <<Time, Loss>>

ChartColSet(step) == {ChartCols(step)[i] : i \in 1..Len(ChartCols(step))}

\* A bar chart of value_counts() has nothing to plot, and a histogram has no
\* finite range, when every cell of the column is missing.
RenderFails(step, table) ==
  /\ step \in BarSteps \cup HistSteps
  /\ \A r \in Rows(table[ChartCols(step)[1]]) : table[ChartCols(step)[1]][r] = NaN

ChartError(step, table) ==
  IF ~(ChartColSet(step) \subseteq DOMAIN table) THEN "KeyError"
  ELSE IF RenderFails(step, table) THEN "RenderError"
  ELSE ""

-----------------------------------------------------------------------------
\* The CSV files the model runs on.  A file is a table of fields: a column
\* name maps to the sequence of its fields, top to bottom.
Fields == {Empty} \cup 0..MaxVal
WideFields == {Empty, 0, MaxVal}
WideLen == MaxLen \div 2

Columns(S, n) == [1..n -> S]

Filler(n) == [r \in 1..n |-> r % (MaxVal + 1)]

\* The other columns: fully populated, or with gaps (the first Attack Type
\* and the last Country missing).
CatFull(n) == [c \in OtherCols |-> [r \in 1..n |-> r % 2]]
CatGaps(n) ==
  [c \in OtherCols |-> [r \in 1..n |->
      IF (c = AttackType /\ r = 1) \/ (c = Country /\ r = n) THEN Empty ELSE r % 2]]
Cats(n) == {CatFull(n), CatGaps(n)}

MkTable(num, cat) == [c \in AllCols |-> IF c \in NumericSet THEN num[c] ELSE cat[c]]

\* One numeric column is col, the other two are filler.
Deep(c, col) == [d \in NumericSet |-> IF d = c THEN col ELSE Filler(Len(col))]

ExampleGaps == <<10, Empty, 30, Empty, 50>>
ExampleQuartiles == <<1, 2, 3, 4, 5, 100>>

DeepColumns == UNION {Columns(Fields, n) : n \in 1..MaxLen}

DeepTables ==
  {MkTable(Deep(c, col), CatFull(Len(col))) : c \in NumericSet, col \in DeepColumns}

ExampleTables ==
  UNION {{MkTable(Deep(c, col), cat) : c \in NumericSet, cat \in Cats(Len(col))} :
           col \in {ExampleGaps, ExampleQuartiles}}

\* All three numeric columns varied at once.
WideTables ==
  UNION {{MkTable(num, cat) : num \in [NumericSet -> Columns(WideFields, n)], cat \in Cats(n)} :
           n \in 1..WideLen}

\* Files that break the schema: a required column is absent, or a numeric
\* column holds text in one row.
BrokenBase == {MkTable(Deep(c, col), CatFull(2)) : c \in NumericSet, col \in Columns(Fields, 2)}
Drop(file, c) == [d \in DOMAIN file \ {c} |-> file[d]]
WithText(file, c, r) == [file EXCEPT ![c][r] = Text]
BrokenTables ==
  {Drop(t, c) : t \in BrokenBase, c \in AllCols}
    \cup {WithText(t, c, r) : t \in BrokenBase, c \in NumericSet, r \in 1..2}

Files ==
  {[status |-> "absent", table |-> NoTable], [status |-> "malformed", table |-> NoTable]}
    \cup {[status |-> "ok", table |-> t] : t \in DeepTables \cup ExampleTables \cup WideTables \cup BrokenTables}

-----------------------------------------------------------------------------
VARIABLES
  csv,      \* the file Global_Cybersecurity_Threats_2015-2024.csv (never written)
  df,       \* the table
  pc,       \* the next cell to run, "done" or "halted"
  out,      \* the cells that ran to completion, in order
  report,   \* the lines the outlier loop printed: <<column, count>>
  views,    \* what each chart cell drew: the columns it read
  err       \* the failure that halted the run

vars == <<csv, df, pc, out, report, views, err>>

NoErr == [step |-> "", kind |-> ""]

Init ==
  /\ csv \in Files
  /\ df = NoTable
  /\ pc = "load"
  /\ out = <<>>
  /\ report = <<>>
  /\ views = <<>>
  /\ err = NoErr

\* The cell ran: control falls to the next cell.
Finish(step) ==
  /\ pc' = NextStep(step)
  /\ out' = Append(out, step)
  /\ err' = err

\* The cell raised: nothing catches it, the run stops there.
Halt(step, kind) ==
  /\ pc' = "halted"
  /\ err' = [step |-> step, kind |-> kind]
  /\ out' = out

\* Lines 19-22: df = pd.read_csv(...); df.head()
Load ==
  /\ pc = "load"
  /\ IF csv.status = "ok"
     THEN /\ df' = read_csv(csv.table)
          /\ Finish("load")
     ELSE /\ Halt("load", IF csv.status = "absent" THEN "FileNotFoundError" ELSE "ParserError")
          /\ UNCHANGED df
  /\ UNCHANGED <<csv, report, views>>

\* Lines 26, 30, 34, 52: df.shape, df.info(), df.describe(), df.isnull().sum()
\* Each displays a summary of the table and changes nothing.
Inspect ==
  /\ pc \in InspectSteps
  /\ Finish(pc)
  /\ UNCHANGED <<csv, df, report, views>>

\* Lines 56-63.
ImputeStep ==
  /\ pc = "impute"
  /\ LET res == Impute(df, NumericSet)
     IN  /\ df' = res.df
         /\ IF res.ok THEN Finish("impute") ELSE Halt("impute", res.kind)
  /\ UNCHANGED <<csv, report, views>>

\* Lines 70-75, one iteration: the columns are taken in the order of
\* numeric_cols, and the cell is over after the last one.
OutlierStep ==
  /\ pc = "outliers"
  /\ LET col == numeric_cols[Len(report) + 1]
         res == OutlierCell(df, col)
     IN  /\ df' = res.df
         /\ report' = Append(report, <<col, res.count>>)
         /\ IF Len(report') = Len(numeric_cols)
            THEN Finish("outliers")
            ELSE UNCHANGED <<pc, out, err>>
  /\ UNCHANGED <<csv, views>>

\* Lines 89-206: each chart cell reads its columns and draws.
Chart ==
  /\ pc \in ChartSteps
  /\ IF ChartError(pc, df) = ""
     THEN /\ views' = Append(views, [step |-> pc, data |-> Select(df, ChartColSet(pc))])
          /\ Finish(pc)
     ELSE /\ Halt(pc, ChartError(pc, df))
          /\ UNCHANGED views
  /\ UNCHANGED <<csv, df, report>>

\* Lines 212-219: the fixed conclusions.
Summary ==
  /\ pc = "summary"
  /\ Finish("summary")
  /\ UNCHANGED <<csv, df, report, views>>

Next == Load \/ Inspect \/ ImputeStep \/ OutlierStep \/ Chart \/ Summary

Spec == Init /\ [][Next]_vars

-----------------------------------------------------------------------------
\* Vocabulary of the properties.

\* The cell has run to completion.
Ran(step) == \E i \in 1..Len(out) : out[i] = step

\* The cell is the last one that ran to completion.
JustRan(step) == out # <<>> /\ out[Len(out)] = step

\* The table as loaded, which is the table the imputation cell starts from.
Before == read_csv(csv.table)

HasTable == csv.status = "ok"

\* The input has every required column, numbers in the numeric columns and
\* at least one row.
WellFormed ==
  /\ HasTable
  /\ AllCols \subseteq DOMAIN csv.table
  /\ \A c \in NumericSet : ~IsObject(Before[c]) /\ Len(Before[c]) >= 1

MissingRows(col) == {r \in Rows(col) : col[r] = NaN}
ObservedRows(col) == {r \in Rows(col) : col[r] # NaN}

\* The k-th smallest observed value of a column, by counting (no sorting).
OrderStat(col, k) ==
  LET obs == ObservedRows(col)
  IN  CHOOSE x \in {col[r] : r \in obs} :
        /\ Cardinality({r \in obs : col[r] < x}) < k
        /\ k <= Cardinality({r \in obs : col[r] <= x})

\* The median of the observed values: the middle one, or the mean of the
\* two middle ones.
MedianDef(col) ==
  LET m == Cardinality(ObservedRows(col))
  IN  IF m = 0 THEN NaN
      ELSE (OrderStat(col, (m + 1) \div 2) + OrderStat(col, (m + 2) \div 2)) \div 2

\* C1 (as amended): once the imputation cell has run, every target column
\* that had at least one observed value has no missing cell, and each cell
\* that was missing holds the median of the column's observed values; a
\* column with no observed value is left entirely missing.  The column
\* [10, missing, 30, missing, 50] becomes [10, 30, 30, 30, 50].
C1_MissingFilledWithMedian ==
  Ran("impute") =>
    \A c \in NumericSet :
      /\ ObservedRows(Before[c]) # {} =>
           /\ MissingRows(df[c]) = {}
           /\ \A r \in MissingRows(Before[c]) : df[c][r] = MedianDef(Before[c])
      /\ ObservedRows(Before[c]) = {} => df[c] = Before[c]
      /\ csv.table[c] = ExampleGaps =>
           df[c] = <<Num(10), Num(30), Num(30), Num(30), Num(50)>>

\* C1 as stated: for every input table, no target column has a missing cell
\* after imputation and every filled cell holds the median.
C1_Original ==
  Ran("impute") =>
    \A c \in NumericSet :
      /\ MissingRows(df[c]) = {}
      /\ \A r \in MissingRows(Before[c]) : df[c][r] = MedianDef(Before[c])

\* A column with gaps and an even number of observed values was imputed.
C1_Witness ==
  /\ Ran("impute")
  /\ \E c \in NumericSet :
       /\ MissingRows(Before[c]) # {}
       /\ Cardinality(ObservedRows(Before[c])) = 2
       /\ \E r \in MissingRows(Before[c]) : df[c][r] % 2 = 1

\* C2: imputation leaves every cell that was present as it was.
C2_PresentValuesKept ==
  Ran("impute") =>
    \A c \in NumericSet : \A r \in ObservedRows(Before[c]) : df[c][r] = Before[c][r]

\* A column with both missing and observed cells was imputed, and its
\* observed cells differ from the fill value.
C2_Witness ==
  /\ Ran("impute")
  /\ \E c \in NumericSet :
       /\ MissingRows(Before[c]) # {}
       /\ \E r \in ObservedRows(Before[c]) : Before[c][r] # MedianDef(Before[c])

\* The whole loop of lines 70-75 run on a table: the lines it prints and the
\* table it leaves.
RECURSIVE LoopFrom(_, _)
LoopFrom(table, i) ==
  IF i > Len(numeric_cols) THEN [df |-> table, report |-> <<>>]
  ELSE LET col == numeric_cols[i]
           res == OutlierCell(table, col)
           rest == LoopFrom(res.df, i + 1)
       IN  [df |-> rest.df, report |-> <<<<col, res.count>>>> \o rest.report]

\* C3: the outlier loop is a pure read: no iteration changes the table, and
\* when the loop is over, running it again on the table it leaves prints the
\* same counts and leaves the same table.
C3_OutlierLoopPureRead ==
  /\ [](JustRan("outliers") =>
          /\ LoopFrom(df, 1).report = report
          /\ LoopFrom(df, 1).df = df)
  /\ [][pc = "outliers" => df' = df]_vars

\* The loop has run and counted an outlier.
C3_Witness ==
  /\ Ran("outliers")
  /\ \E i \in 1..Len(report) : report[i][2] >= 1

\* The quantile j/4 of the observed values by linear interpolation between
\* order statistics, in quarters of a cell unit.
QuantileDef4(col, j) ==
  LET n == Cardinality(ObservedRows(col))
      lo == ((n - 1) * j) \div 4
      fr == ((n - 1) * j) % 4
      hi == IF fr = 0 THEN lo ELSE lo + 1
  IN  (4 - fr) * OrderStat(col, lo + 1) + fr * OrderStat(col, hi + 1)

\* The rows strictly outside the fences Q1 - 1.5*IQR and Q3 + 1.5*IQR
\* (compared in eighths of a cell unit).
OutsideFences(col) ==
  IF ObservedRows(col) = {} THEN {}
  ELSE LET q1 == QuantileDef4(col, 1)
           q3 == QuantileDef4(col, 3)
           iqr == q3 - q1
       IN  {r \in ObservedRows(col) :
              8 * col[r] < 2 * q1 - 3 * iqr \/ 8 * col[r] > 2 * q3 + 3 * iqr}

\* C4: when the loop is over, the count reported for each numeric column is the number of rows
\* strictly below Q1 - 1.5*IQR or strictly above Q3 + 1.5*IQR, with Q1 and Q3
\* the linearly interpolated quartiles; a value on a fence is not counted.
\* For [1,2,3,4,5,100]: Q1 = 2.25, Q3 = 4.75, IQR = 2.5 (18, 38 and 20 in
\* eighths), upper fence 8.5 (136 in sixteenths), and only the row holding
\* 100 is counted.
C4_OutlierCount ==
  JustRan("outliers") =>
    \A i \in 1..Len(numeric_cols) :
      LET c == numeric_cols[i]
      IN  /\ report[i] = <<c, Cardinality(OutsideFences(df[c]))>>
          /\ csv.table[c] = ExampleQuartiles =>
               /\ Q1(df[c]) = 18 /\ Q3(df[c]) = 38 /\ IQR(df[c]) = 20
               /\ 2 * Q3(df[c]) + 3 * IQR(df[c]) = 136
               /\ OutlierMask(df[c]) = <<FALSE, FALSE, FALSE, FALSE, FALSE, TRUE>>
               /\ report[i][2] = 1

\* The loop has reported the column [1,2,3,4,5,100] with one outlier.
C4_Witness ==
  /\ Ran("outliers")
  /\ csv.table[Loss] = ExampleQuartiles
  /\ report[1] = <<Loss, 1>>

\* A reported column with values exactly on its fences, none counted.
C4_WitnessOnFence ==
  /\ Ran("outliers")
  /\ \E i \in 1..Len(numeric_cols) :
       /\ report[i][2] = 0
       /\ \E r \in ObservedRows(df[numeric_cols[i]]) :
            8 * df[numeric_cols[i]][r] = 2 * Q3(df[numeric_cols[i]]) + 3 * IQR(df[numeric_cols[i]])

PreImputeSteps == {Steps[i] : i \in 1..StepIndex("impute")}

\* C5: on a well-formed input with at least one row, no cell up to and
\* including the imputation raises, and the table has the same rows in the
\* same order after cleaning as after loading.
C5_CleanRunKeepsRows ==
  WellFormed =>
    /\ pc = "halted" => err.step \notin PreImputeSteps
    /\ Ran("impute") =>
         /\ DOMAIN df = DOMAIN Before
         /\ \A c \in AllCols :
              /\ Len(df[c]) = Len(csv.table[c])
              /\ \A r \in ObservedRows(Before[c]) : df[c][r] = Before[c][r]

\* A well-formed table of several rows, some with gaps, was cleaned.
C5_Witness ==
  /\ WellFormed
  /\ Ran("impute")
  /\ \E c \in NumericSet : MissingRows(Before[c]) # {} /\ Len(Before[c]) >= 2

Perms ==
  {p \in [1..Len(numeric_cols) -> NumericSet] :
     \A i, j \in 1..Len(numeric_cols) : i # j => p[i] # p[j]}

\* The cleaner applied to one column at a time, in the order p, each median
\* taken from the table as it stands at that call.
RECURSIVE OneAtATime(_, _, _)
OneAtATime(table, p, i) ==
  IF i > Len(p) THEN table
  ELSE OneAtATime(Impute(table, {p[i]}).df, p, i + 1)

\* C6: the cleaner is column-independent and order-insensitive: the table it
\* leaves when it has run is the one left by cleaning the three columns one at a time in any
\* order, and each column's result is the result of cleaning that column
\* alone.
C6_ColumnIndependent ==
  JustRan("impute") =>
    /\ \A p \in Perms : df = OneAtATime(Before, p, 1)
    /\ \A c \in NumericSet : df[c] = Impute(Select(Before, {c}), {c}).df[c]

\* Three columns with different gaps and different medians were cleaned.
C6_Witness ==
  /\ Ran("impute")
  /\ \A c \in NumericSet : MissingRows(Before[c]) # {} /\ ObservedRows(Before[c]) # {}
  /\ \E c, d \in NumericSet : MedianDef(Before[c]) # MedianDef(Before[d])

\* C7: the cleaner touches nothing outside the three numeric columns: every
\* other column is cell for cell as loaded, missing cells included.
C7_OtherColumnsUntouched ==
  Ran("impute") =>
    /\ DOMAIN df = DOMAIN Before
    /\ \A c \in DOMAIN df \ NumericSet : df[c] = Before[c]

\* A table with gaps in a numeric column and in another column was cleaned.
C7_Witness ==
  /\ Ran("impute")
  /\ \E c \in NumericSet : MissingRows(Before[c]) # {} /\ ObservedRows(Before[c]) # {}
  /\ \E c \in DOMAIN df \ NumericSet :
       /\ MissingRows(df[c]) # {}
       /\ \E r \in ObservedRows(df[c]) : df[c][r] # 0

\* C8: the cells run once each in the fixed order; after loading, the table
\* is written by the imputation cell only; every chart is drawn from the
\* post-imputation table.
C8_WrittenOnceReadAfter ==
  /\ [](/\ out = SubSeq(Steps, 1, Len(out))
        /\ pc = "done" => out = Steps
        /\ \A i \in 1..Len(views) :
               views[i].data = Select(Impute(Before, NumericSet).df, ChartColSet(views[i].step)))
  /\ [][/\ pc \notin {"load", "impute"} => df' = df
        /\ pc' \notin {pc, "halted"} => pc' = NextStep(pc)]_vars

\* A full run whose imputation changed the table.
C8_Witness ==
  /\ pc = "done"
  /\ df # Before
  /\ \E i \in 1..Len(report) : report[i][2] >= 1

BadNumeric == \E c \in NumericSet : c \notin DOMAIN csv.table \/ IsObject(Before[c])

\* C9: a failure halts the run at its cell: the cells before it ran, none
\* after it does, and nothing runs from the halted state.  A failed load
\* leaves no table and no output.  A numeric column that is absent or holds
\* text makes the cleaner fail, with the table exactly as loaded and no
\* outlier line, chart or summary produced.
C9_FailureHalts ==
  /\ [](/\ pc = "halted" => out = SubSeq(Steps, 1, StepIndex(err.step) - 1)
        /\ (~HasTable /\ pc # "load") =>
             /\ pc = "halted" /\ err.step = "load"
             /\ df = NoTable /\ out = <<>> /\ report = <<>> /\ views = <<>>
        /\ (HasTable /\ BadNumeric /\ pc \notin PreImputeSteps) =>
             /\ pc = "halted" /\ err.step = "impute"
        /\ (pc = "halted" /\ err.step = "impute") =>
             /\ df = Before
             /\ report = <<>>
             /\ views = <<>>
             /\ ~Ran("summary"))
  /\ [][pc # "halted"]_vars

\* The cleaner failed on a text column while another column had gaps to fill.
C9_Witness ==
  /\ pc = "halted"
  /\ err = [step |-> "impute", kind |-> "TypeError"]
  /\ \E c \in NumericSet :
       ~IsObject(Before[c]) /\ MissingRows(Before[c]) # {} /\ ObservedRows(Before[c]) # {}

\* C10: a cell filled by imputation is never counted as an outlier: when the
\* loop is over, for a column with an observed value the fill value lies within the fences of
\* the post-imputation column, and the reported count is the number of
\* originally observed rows outside them.
C10_FilledNeverOutlier ==
  JustRan("outliers") =>
    \A i \in 1..Len(numeric_cols) :
      LET c == numeric_cols[i]
          m == MedianDef(Before[c])
      IN  ObservedRows(Before[c]) # {} =>
            /\ 2 * Q1(df[c]) - 3 * IQR(df[c]) <= 8 * m
            /\ 8 * m <= 2 * Q3(df[c]) + 3 * IQR(df[c])
            /\ \A r \in MissingRows(Before[c]) : df[c][r] = m /\ ~OutlierMask(df[c])[r]
            /\ report[i][2] =
                 Cardinality({r \in ObservedRows(Before[c]) : OutlierMask(df[c])[r]})

\* A column with a filled cell was reported with an outlier among its
\* observed rows.
C10_Witness ==
  /\ Ran("outliers")
  /\ \E i \in 1..Len(numeric_cols) :
       /\ MissingRows(Before[numeric_cols[i]]) # {}
       /\ report[i][2] >= 1

====
